---- MODULE Spec2Model ----
(***************************************************************************)
(* pystate: a finite state machine whose per-state handlers are            *)
(* coroutines (src/pystate.py).  The model keeps the fields of the State   *)
(* objects and of one FiniteStateMachine, and has one action per public    *)
(* method: add_state, transition_to, start, dispatch_event.                *)
(***************************************************************************)
EXTENDS Naturals, FiniteSets, Sequences, TLC

VARIABLES
    states,         \* fsm.states: dict, State.name -> State
    initial_state,  \* fsm.initial_state: a State or None
    current_state,  \* fsm.current_state: a State or None
    from_states,    \* State.from_states of every State object
    handler_func,   \* State.handler_func of every State object
    generator,      \* State.generator of every State object (set by start only)
    foo,            \* field foo of the callable handler object state_a (StateA)
    started,        \* history: start() has been called and has returned
    driver,         \* the loop that feeds an event list (run_event_list)
    last            \* the latest call: method, arguments, exception, handlers run

vars == <<states, initial_state, current_state, from_states, handler_func,
          generator, foo, started, driver, last>>

----------------------------------------------------------------------------
(* Values *)

\* Python's None
None == "None"

\* The State objects the demos create (module globals).
STATE_A == "A"
STATE_B == "B"
STATE_C == "C"
STATE_LOCKED == "LOCKED"
STATE_UNLOCKED == "UNLOCKED"

AllStates == {STATE_A, STATE_B, STATE_C, STATE_LOCKED, STATE_UNLOCKED}

\* State.name: the string given to State.__init__
StateName(s) ==
    CASE s = STATE_A -> "STATE_A"
      [] s = STATE_B -> "STATE_B"
      [] s = STATE_C -> "STATE_C"
      [] s = STATE_LOCKED -> "STATE_LOCKED"
      [] s = STATE_UNLOCKED -> "STATE_UNLOCKED"

\* A value that is no State (a name string handed over instead of the object).
NotAState == "not_a_State"

\* isinstance(x, State)
IsState(x) == x \in AllStates

\* State.generator before start() has ever assigned it: the attribute is missing
\* (State.__init__ sets handler_generator, not generator).
NoGenerator == [status |-> "missing", bar |-> 0]

\* The handler functions of the demos.
StateAHandler == "state_a_handler"
StateBHandler == "state_b_handler"
StateCHandler == "state_c_handler"
LockedHandler == "state_locked_handler"
UnlockedHandler == "state_unlocked_handler"
StateACallable == "state_a"
StateBCounting == "callable_test.state_b_handler"

----------------------------------------------------------------------------
(* Bounds of the enumeration *)

\* largest number of entries of a from_states collection handed to add_state
MaxFrom == 2

\* largest value of the counter bar of callable_test.state_b_handler
MaxBar == 2

\* the State objects add_state is called with
RegStates == {STATE_A, STATE_B}

\* the State objects that occur in from_states arguments
PredStates == {STATE_A, STATE_B}

\* the handler_func arguments of add_state (None is the default of the parameter)
HandlerInputs == {None, StateACallable, StateBHandler}

\* the events dispatched
Events == {"GOTO_A", "GOTO_B", "END"}

\* the from_states arguments: None, a single State, or a collection
FromNone == [kind |-> "None", one |-> None, elems |-> {}]
FromSingle(p) == [kind |-> "State", one |-> p, elems |-> {}]
FromColl(S) == [kind |-> "collection", one |-> None, elems |-> S]

FromInputs ==
    {FromNone}
    \cup {FromSingle(p) : p \in PredStates}
    \cup {FromColl(S) : S \in {T \in SUBSET PredStates : Cardinality(T) <= MaxFrom}}
    \cup {FromColl({STATE_A, NotAState})}

----------------------------------------------------------------------------
(* The record of the latest call *)

\* the from_states field of a call that has no such argument
NoFrom == [kind |-> "-", one |-> None, elems |-> {}]

Call(op, exc, state, init, fs, event, pre, ran) ==
    [op |-> op, exc |-> exc, state |-> state, init |-> init, fs |-> fs,
     event |-> event, pre |-> pre, ran |-> ran]

\* no event list is being fed: the methods are called one by one
NoDriver == [list |-> << >>, idx |-> 0, running |-> FALSE, runs |-> 0]

----------------------------------------------------------------------------
(* State.__init__ and FiniteStateMachine.__init__ *)

Init ==
    /\ states = << >>
    /\ initial_state = None
    /\ current_state = None
    /\ from_states = [s \in AllStates |-> {}]
    /\ handler_func = [s \in AllStates |-> None]
    /\ generator = [s \in AllStates |-> NoGenerator]
    /\ foo = FALSE
    /\ started = FALSE
    /\ driver = NoDriver
    /\ last = Call("__init__", "none", None, FALSE, NoFrom, None, None, {})

\* the keys of fsm.states
Names == DOMAIN states

----------------------------------------------------------------------------
(* add_state *)

\* from_states_tuple: (from_states,) if it is a State, else tuple(from_states or []).
\* The tuple is kept as the set of its entries: the code only asks whether it
\* has an entry (len >= 1), whether every entry is a State, and whether
\* current_state is one of its entries.
\* from_states_tuple without the isinstance test for a single State
FromStatesTuple_NoSingle(fs) ==
    IF fs.kind = "None" THEN {} ELSE fs.elems

FromStatesTuple(fs) ==
    IF fs.kind = "State" THEN {fs.one}
    ELSE IF fs.kind = "None" THEN {}
    ELSE fs.elems

\* add_state without the check of the name
AddStateError_NoDuplicateCheck(state, fs, initial) ==
    LET t == FromStatesTuple(fs) IN
    IF ~initial /\ ~(Cardinality(t) >= 1) THEN "ValueError"
    ELSE IF ~(\A x \in t : IsState(x)) THEN "TypeError"
    ELSE IF initial /\ initial_state # None THEN "RuntimeError"
    ELSE "none"

\* add_state without the check of a second initial state
AddStateError_NoInitialCheck(state, fs, initial) ==
    LET t == FromStatesTuple(fs) IN
    IF ~initial /\ ~(Cardinality(t) >= 1) THEN "ValueError"
    ELSE IF ~(\A x \in t : IsState(x)) THEN "TypeError"
    ELSE IF StateName(state) \in Names THEN "KeyError"
    ELSE "none"

\* add_state that refuses an empty from_states of the initial state too
AddStateError_EmptyAlwaysRejected(state, fs, initial) ==
    LET t == FromStatesTuple(fs) IN
    IF ~(Cardinality(t) >= 1) THEN "ValueError"
    ELSE IF ~(\A x \in t : IsState(x)) THEN "TypeError"
    ELSE IF StateName(state) \in Names THEN "KeyError"
    ELSE IF initial /\ initial_state # None THEN "RuntimeError"
    ELSE "none"

\* the checks of add_state, in the order of the code
AddStateError(state, fs, initial) ==
    LET t == FromStatesTuple(fs) IN
    IF ~initial /\ ~(Cardinality(t) >= 1) THEN "ValueError"
    ELSE IF ~(\A x \in t : IsState(x)) THEN "TypeError"
    ELSE IF StateName(state) \in Names THEN "KeyError"
    ELSE IF initial /\ initial_state # None THEN "RuntimeError"
    ELSE "none"

\* add_state that stores from_states on the State before it checks
add_state_StoreFirst(state, fs, handler, initial) ==
    LET exc == AddStateError(state, fs, initial) IN
    /\ last' = Call("add_state", exc, state, initial, fs, None, current_state, {})
    /\ from_states' = [from_states EXCEPT ![state] = FromStatesTuple(fs)]
    /\ IF exc # "none"
       THEN UNCHANGED <<states, initial_state, current_state,
                        handler_func, generator, foo, started>>
       ELSE /\ states' = [n \in Names \cup {StateName(state)} |->
                             IF n = StateName(state) THEN state ELSE states[n]]
            /\ handler_func' = [handler_func EXCEPT ![state] = handler]
            /\ IF initial
               THEN initial_state' = state /\ current_state' = state
               ELSE UNCHANGED <<initial_state, current_state>>
            /\ UNCHANGED <<generator, foo, started>>

\* add_state that makes the state initial and current before it checks
add_state_InitialFirst(state, fs, handler, initial) ==
    LET exc == AddStateError(state, fs, initial) IN
    /\ last' = Call("add_state", exc, state, initial, fs, None, current_state, {})
    /\ IF initial
       THEN initial_state' = state /\ current_state' = state
       ELSE UNCHANGED <<initial_state, current_state>>
    /\ IF exc # "none"
       THEN UNCHANGED <<states, from_states, handler_func, generator, foo, started>>
       ELSE /\ states' = [n \in Names \cup {StateName(state)} |->
                             IF n = StateName(state) THEN state ELSE states[n]]
            /\ from_states' = [from_states EXCEPT ![state] = FromStatesTuple(fs)]
            /\ handler_func' = [handler_func EXCEPT ![state] = handler]
            /\ UNCHANGED <<generator, foo, started>>

add_state(state, fs, handler, initial) ==
    LET exc == AddStateError(state, fs, initial) IN
    /\ last' = Call("add_state", exc, state, initial, fs, None, current_state, {})
    /\ IF exc # "none"
       THEN UNCHANGED <<states, initial_state, current_state, from_states,
                        handler_func, generator, foo, started>>
       ELSE /\ states' = [n \in Names \cup {StateName(state)} |->
                             IF n = StateName(state) THEN state ELSE states[n]]
            /\ from_states' = [from_states EXCEPT ![state] = FromStatesTuple(fs)]
            /\ handler_func' = [handler_func EXCEPT ![state] = handler]
            /\ IF initial
               THEN initial_state' = state /\ current_state' = state
               ELSE UNCHANGED <<initial_state, current_state>>
            /\ UNCHANGED <<generator, foo, started>>

----------------------------------------------------------------------------
(* transition_to *)

\* transition_to with the membership test turned round
TransitionError_Reversed(cur, to_state) ==
    IF ~IsState(to_state) THEN "TypeError"
    ELSE IF cur = None THEN "AttributeError"
    ELSE IF to_state \notin from_states[cur] THEN "InvalidStateTransition"
    ELSE "none"

\* transition_to without the membership test
TransitionError_NoCheck(cur, to_state) ==
    IF ~IsState(to_state) THEN "TypeError" ELSE "none"

\* the exception transition_to(to_state) raises when current_state is cur
TransitionError(cur, to_state) ==
    IF ~IsState(to_state) THEN "TypeError"
    ELSE IF cur \notin from_states[to_state]
         THEN (IF cur = None THEN "AttributeError"  \* None.name in the message
               ELSE "InvalidStateTransition")
         ELSE "none"

\* transition_to that assigns current_state before it checks
transition_to_AssignFirst(to_state) ==
    LET exc == TransitionError(current_state, to_state) IN
    /\ last' = Call("transition_to", exc, to_state, FALSE, NoFrom, None,
                    current_state, {})
    /\ current_state' = IF IsState(to_state) THEN to_state ELSE current_state
    /\ UNCHANGED <<states, initial_state, from_states, handler_func, generator,
                   foo, started>>

transition_to(to_state) ==
    LET exc == TransitionError(current_state, to_state) IN
    /\ last' = Call("transition_to", exc, to_state, FALSE, NoFrom, None,
                    current_state, {})
    /\ current_state' = IF exc = "none" THEN to_state ELSE current_state
    /\ UNCHANGED <<states, initial_state, from_states, handler_func, generator,
                   foo, started>>

----------------------------------------------------------------------------
(* The handlers *)

\* what a handler does with one event
Transition(s) == [act |-> "transition_to", to |-> s, exc |-> "none"]
Raise(e) == [act |-> "raise", to |-> None, exc |-> e]
Stay == [act |-> "stay", to |-> None, exc |-> "none"]
FlipFoo == [act |-> "flip_foo", to |-> None, exc |-> "none"]
IncrBar == [act |-> "incr_bar", to |-> None, exc |-> "none"]

\* the handlers with a locked turnstile that takes no coin
HandlerBody_CoinRefused(h, event) ==
    CASE h = StateAHandler ->
            IF event = "GOTO_B" THEN Transition(STATE_B) ELSE Raise("ValueError")
      [] h = StateBHandler ->
            IF event = "GOTO_C" THEN Transition(STATE_C)
            ELSE IF event = "GOTO_A" THEN Transition(STATE_A)
            ELSE Raise("ValueError")
      [] h = StateCHandler ->
            IF event = "GOTO_A" THEN Transition(STATE_A)
            ELSE IF event = "END" THEN Raise("FsmExit")
            ELSE Raise("ValueError")
      [] h = LockedHandler -> Stay
      [] h = UnlockedHandler ->
            IF event = "CUST_PASSED" THEN Transition(STATE_LOCKED) ELSE Stay
      [] h = StateACallable ->
            IF event = "GOTO_B" THEN Transition(STATE_B)
            ELSE IF event = "FLIP_FOO" THEN FlipFoo
            ELSE IF event = "END" THEN Raise("FsmExit")
            ELSE Stay
      [] h = StateBCounting ->
            IF event = "GOTO_A" THEN Transition(STATE_A)
            ELSE IF event = "INCR_BAR" THEN IncrBar
            ELSE Stay

HandlerBody(h, event) ==
    CASE h = StateAHandler ->
            IF event = "GOTO_B" THEN Transition(STATE_B) ELSE Raise("ValueError")
      [] h = StateBHandler ->
            IF event = "GOTO_C" THEN Transition(STATE_C)
            ELSE IF event = "GOTO_A" THEN Transition(STATE_A)
            ELSE Raise("ValueError")
      [] h = StateCHandler ->
            IF event = "GOTO_A" THEN Transition(STATE_A)
            ELSE IF event = "END" THEN Raise("FsmExit")
            ELSE Raise("ValueError")
      [] h = LockedHandler ->
            IF event = "COIN" THEN Transition(STATE_UNLOCKED) ELSE Stay
      [] h = UnlockedHandler ->
            IF event = "CUST_PASSED" THEN Transition(STATE_LOCKED) ELSE Stay
      [] h = StateACallable ->
            IF event = "GOTO_B" THEN Transition(STATE_B)
            ELSE IF event = "FLIP_FOO" THEN FlipFoo
            ELSE IF event = "END" THEN Raise("FsmExit")
            ELSE Stay
      [] h = StateBCounting ->
            IF event = "GOTO_A" THEN Transition(STATE_A)
            ELSE IF event = "INCR_BAR" THEN IncrBar
            ELSE Stay

----------------------------------------------------------------------------
(* start *)

\* handler_func(fsm) followed by next(generator): the coroutine has run its
\* setup code (bar = 0 in callable_test.state_b_handler) and waits at its
\* first yield.
Primed == [status |-> "suspended", bar |-> 0]

\* a generator that is still suspended after an exception has left it
Finished_StillSuspended(g) == g

\* a generator an exception has left
Finished(g) == [g EXCEPT !.status = "finished"]

\* self.states.values()
Registered == {states[n] : n \in Names}

\* start that makes a generator for the initial state only
StartUp_OnlyInitial(cur) ==
    LET uncallable == {s \in Registered : handler_func[s] = None} IN
    /\ current_state' = cur
    /\ started' = (started \/ uncallable = {})
    /\ IF uncallable = {}
       THEN /\ generator' = [s \in AllStates |->
                               IF s = initial_state THEN Primed ELSE generator[s]]
            /\ last' = Call("start", "none", None, FALSE, NoFrom, None,
                            current_state, {})
       ELSE \E done \in SUBSET (Registered \ uncallable) :
               /\ generator' = [s \in AllStates |->
                                  IF s \in done THEN Primed ELSE generator[s]]
               /\ last' = Call("start", "TypeError", None, FALSE, NoFrom, None,
                               current_state, {})
    /\ UNCHANGED <<states, initial_state, from_states, handler_func, foo>>

\* start that keeps the generator a state already has
StartUp_KeepExisting(cur) ==
    LET uncallable == {s \in Registered : handler_func[s] = None} IN
    /\ current_state' = cur
    /\ started' = (started \/ uncallable = {})
    /\ IF uncallable = {}
       THEN /\ generator' = [s \in AllStates |->
                               IF s \in Registered /\ generator[s].status = "missing"
                               THEN Primed ELSE generator[s]]
            /\ last' = Call("start", "none", None, FALSE, NoFrom, None,
                            current_state, {})
       ELSE \E done \in SUBSET (Registered \ uncallable) :
               /\ generator' = [s \in AllStates |->
                                  IF s \in done THEN Primed ELSE generator[s]]
               /\ last' = Call("start", "TypeError", None, FALSE, NoFrom, None,
                               current_state, {})
    /\ UNCHANGED <<states, initial_state, from_states, handler_func, foo>>

\* the body of start after its check, with cur the value it gives current_state
StartUp(cur) ==
    LET uncallable == {s \in Registered : handler_func[s] = None} IN
    /\ current_state' = cur
    /\ started' = (started \/ uncallable = {})
    /\ IF uncallable = {}
       THEN /\ generator' = [s \in AllStates |->
                               IF s \in Registered THEN Primed ELSE generator[s]]
            /\ last' = Call("start", "none", None, FALSE, NoFrom, None,
                            current_state, {})
       ELSE \* None(self) raises TypeError; the states the loop reached before
            \* it are primed (the order of a dict's values is not fixed by the
            \* code)
            \E done \in SUBSET (Registered \ uncallable) :
               /\ generator' = [s \in AllStates |->
                                  IF s \in done THEN Primed ELSE generator[s]]
               /\ last' = Call("start", "TypeError", None, FALSE, NoFrom, None,
                               current_state, {})
    /\ UNCHANGED <<states, initial_state, from_states, handler_func, foo>>

StartRefused ==
    /\ last' = Call("start", "RuntimeError", None, FALSE, NoFrom, None,
                    current_state, {})
    /\ UNCHANGED <<states, initial_state, current_state, from_states,
                   handler_func, generator, foo, started>>

\* start that leaves current_state where it is
start_NoReset ==
    IF initial_state = None THEN StartRefused ELSE StartUp(current_state)

\* start without the check of initial_state
start_NoInitialCheck == StartUp(initial_state)

start ==
    IF initial_state = None THEN StartRefused ELSE StartUp(initial_state)

----------------------------------------------------------------------------
(* dispatch_event *)

\* dispatch_event that looks the handler up under initial_state
Routed_Initial == states[StateName(initial_state)]

\* self.states[self.current_state.name]: the State whose generator gets the event
Routed == states[StateName(current_state)]

\* send that resumes a handler context made anew for the event
Send_Recreate(s, event) ==
    LET b == HandlerBody(handler_func[s], event)
        exc == IF b.act = "transition_to"
               THEN TransitionError(current_state, b.to)
               ELSE b.exc
    IN [exc |-> exc,
        cur |-> IF b.act = "transition_to" /\ exc = "none" THEN b.to
                ELSE current_state,
        gen |-> IF exc # "none" THEN Finished(Primed)
                ELSE IF b.act = "incr_bar" THEN [Primed EXCEPT !.bar = 1]
                ELSE Primed,
        foo |-> IF b.act = "flip_foo" THEN ~foo ELSE foo]

\* send that catches what the handler raises
Send_Swallow(s, event) ==
    LET g == generator[s]
        b == HandlerBody(handler_func[s], event)
        exc == IF b.act = "transition_to"
               THEN TransitionError(current_state, b.to)
               ELSE b.exc
    IN [exc |-> "none",
        cur |-> IF b.act = "transition_to" /\ exc = "none" THEN b.to
                ELSE current_state,
        gen |-> IF exc # "none" THEN Finished(g)
                ELSE IF b.act = "incr_bar" THEN [g EXCEPT !.bar = g.bar + 1]
                ELSE g,
        foo |-> IF b.act = "flip_foo" THEN ~foo ELSE foo]

\* generator.send(event) on the suspended generator of State s: the handler
\* body runs once; an exception that leaves it finishes the generator.
Send(s, event) ==
    LET g == generator[s]
        b == HandlerBody(handler_func[s], event)
        exc == IF b.act = "transition_to"
               THEN TransitionError(current_state, b.to)
               ELSE b.exc
    IN [exc |-> exc,
        cur |-> IF b.act = "transition_to" /\ exc = "none" THEN b.to
                ELSE current_state,
        gen |-> IF exc # "none" THEN Finished(g)
                ELSE IF b.act = "incr_bar" THEN [g EXCEPT !.bar = g.bar + 1]
                ELSE g,
        foo |-> IF b.act = "flip_foo" THEN ~foo ELSE foo]

\* dispatch_event stopped by exception exc before any handler code has run
DispatchRefused(event, exc) ==
    /\ last' = Call("dispatch_event", exc, None, FALSE, NoFrom, event,
                    current_state, {})
    /\ UNCHANGED <<states, initial_state, current_state, from_states,
                   handler_func, generator, foo, started>>

\* the exception that stops dispatch_event before the handler is resumed
DispatchError ==
    IF current_state = None THEN "AttributeError"     \* None.name
    ELSE IF StateName(current_state) \notin Names THEN "KeyError"
    ELSE IF generator[Routed].status = "missing" THEN "AttributeError"
    ELSE IF generator[Routed].status = "finished" THEN "StopIteration"
    ELSE "none"

\* dispatch_event that hands the event on to the state the handler moved to
dispatch_event_Forward(event) ==
    IF DispatchError # "none" THEN DispatchRefused(event, DispatchError)
    ELSE LET s == Routed
             r == Send(s, event)
             t == r.cur
             again == t # s /\ generator[t].status = "suspended"
         IN
         /\ r.gen.bar <= MaxBar
         /\ last' = Call("dispatch_event", r.exc, None, FALSE, NoFrom, event,
                         current_state, IF again THEN {s, t} ELSE {s})
         /\ current_state' = r.cur
         /\ generator' = [generator EXCEPT ![s] = r.gen]
         /\ foo' = r.foo
         /\ UNCHANGED <<states, initial_state, from_states, handler_func, started>>

dispatch_event(event) ==
    IF DispatchError # "none" THEN DispatchRefused(event, DispatchError)
    ELSE LET s == Routed
             r == Send(s, event)
         IN
         /\ r.gen.bar <= MaxBar
         /\ last' = Call("dispatch_event", r.exc, None, FALSE, NoFrom, event,
                         current_state, {s})
         /\ current_state' = r.cur
         /\ generator' = [generator EXCEPT ![s] = r.gen]
         /\ foo' = r.foo
         /\ UNCHANGED <<states, initial_state, from_states, handler_func, started>>

----------------------------------------------------------------------------
(* The machine under any sequence of calls of its public methods *)

Next ==
    \/ \E state \in RegStates, fs \in FromInputs, handler \in HandlerInputs,
          initial \in BOOLEAN :
             add_state(state, fs, handler, initial) /\ UNCHANGED driver
    \/ \E to_state \in AllStates \cup {NotAState} :
             transition_to(to_state) /\ UNCHANGED driver
    \/ start /\ UNCHANGED driver
    \/ \E event \in Events : dispatch_event(event) /\ UNCHANGED driver

Spec == Init /\ [][Next]_vars

----------------------------------------------------------------------------
(* The demo programs: their registrations, event lists and driving loop *)

\* one add_state call of a demo
Reg(state, fs, handler, initial) ==
    [state |-> state, fs |-> fs, handler |-> handler, initial |-> initial]

\* the add_state calls of the __main__ demo of pystate.py
PystateDemo ==
    {Reg(STATE_A, FromSingle(STATE_C), StateAHandler, TRUE),
     Reg(STATE_B, FromSingle(STATE_A), StateBHandler, FALSE),
     Reg(STATE_C, FromSingle(STATE_B), StateCHandler, FALSE)}

\* the add_state calls of turnstile_test.py
TurnstileDemo ==
    {Reg(STATE_LOCKED, FromSingle(STATE_UNLOCKED), LockedHandler, TRUE),
     Reg(STATE_UNLOCKED, FromSingle(STATE_LOCKED), UnlockedHandler, FALSE)}

\* the add_state calls of callable_test.py
CallableDemo ==
    {Reg(STATE_A, FromSingle(STATE_B), StateACallable, TRUE),
     Reg(STATE_B, FromSingle(STATE_A), StateBCounting, FALSE)}

Demos == {PystateDemo, TurnstileDemo, CallableDemo}

\* the event lists of the three programs
EventList1 == <<"GOTO_B", "GOTO_C", "GOTO_A", "GOTO_B", "GOTO_C", "END">>
EventList2 == <<"GOTO_B", "GOTO_C", "GOTO_A", "GOTO_B", "GOTO_A", "GOTO_C", "END">>
EventList3 == <<"GOTO_B", "GOTO_C", "GOTO_A", "END", "GOTO_C", "END">>
TurnstileEvents == <<"COIN", "CUST_PASSED", "COIN", "COIN", "CUST_PASSED",
                     "CUST_PASSED">>
CallableEvents == <<"FLIP_FOO", "GOTO_B", "INCR_BAR", "GOTO_A", "FLIP_FOO",
                    "FLIP_FOO", "GOTO_B", "INCR_BAR", "GOTO_A", "END">>

EventLists == {EventList1, EventList2, EventList3, TurnstileEvents, CallableEvents}

\* largest number of event lists fed to one machine (the __main__ demo feeds
\* three, each after a start())
MaxRuns == 3

\* the machine after the add_state calls of demo d, none of which fails
Registration(d) ==
    /\ states = [n \in {StateName(c.state) : c \in d} |->
                    (CHOOSE c \in d : StateName(c.state) = n).state]
    /\ from_states = [s \in AllStates |->
                        IF \E c \in d : c.state = s
                        THEN FromStatesTuple((CHOOSE c \in d : c.state = s).fs)
                        ELSE {}]
    /\ handler_func = [s \in AllStates |->
                         IF \E c \in d : c.state = s
                         THEN (CHOOSE c \in d : c.state = s).handler
                         ELSE None]
    /\ initial_state = (CHOOSE c \in d : c.initial).state
    /\ current_state = (CHOOSE c \in d : c.initial).state
    /\ generator = [s \in AllStates |-> NoGenerator]
    /\ foo = FALSE
    /\ started = FALSE
    /\ driver = NoDriver
    /\ last = Call("__init__", "none", None, FALSE, NoFrom, None, None, {})

\* run_event_list(fsm, event_list), first line: fsm.start()
run_event_list(list) ==
    /\ ~driver.running
    /\ driver.runs < MaxRuns
    /\ start
    /\ driver' = [list |-> list, idx |-> 0, running |-> last'.exc = "none",
                  runs |-> driver.runs + 1]

\* one round of "for event in event_list: fsm.dispatch_event(event)"; an
\* exception out of dispatch_event ends the loop
NextEvent ==
    /\ driver.running
    /\ driver.idx < Len(driver.list)
    /\ dispatch_event(driver.list[driver.idx + 1])
    /\ driver' = [driver EXCEPT !.idx = driver.idx + 1,
                                !.running = last'.exc = "none"]

\* the event list is used up
EndOfList ==
    /\ driver.running
    /\ driver.idx = Len(driver.list)
    /\ driver' = [driver EXCEPT !.running = FALSE]
    /\ UNCHANGED <<states, initial_state, current_state, from_states,
                   handler_func, generator, foo, started, last>>

DemoInit == \E d \in Demos : Registration(d)

DemoNext ==
    \/ \E list \in EventLists : run_event_list(list)
    \/ NextEvent
    \/ EndOfList

\* a demo machine fed event lists by the loop of run_event_list
SpecDemo == DemoInit /\ [][DemoNext]_vars

\* the events callable_test.py knows
CallableAlphabet == {"FLIP_FOO", "GOTO_B", "INCR_BAR", "GOTO_A", "END"}

CallableNext ==
    \/ \E handler \in {None, StateCHandler} :
            add_state(STATE_C, FromSingle(STATE_B), handler, FALSE)
            /\ UNCHANGED driver
    \/ start /\ UNCHANGED driver
    \/ \E to_state \in {STATE_A, STATE_B, STATE_C} :
            transition_to(to_state) /\ UNCHANGED driver
    \/ \E event \in CallableAlphabet : dispatch_event(event) /\ UNCHANGED driver

\* the machine of callable_test.py under any sequence of calls, a third state
\* registered later (with or without a handler) among them
SpecCallable == Registration(CallableDemo) /\ [][CallableNext]_vars

----------------------------------------------------------------------------
(* Properties *)

\* what the handler of State s asks for when it is handed the event
Asked(s, event) == HandlerBody(handler_func[s], event)

\* the exception add_state raises for a from_states argument alone, if any
FromError(fs, initial) ==
    IF ~initial /\ FromStatesTuple(fs) = {} THEN "ValueError"
    ELSE IF ~(FromStatesTuple(fs) \subseteq AllStates) THEN "TypeError"
    ELSE "none"

\* C1: for registered States X and Y (X = Y included), transition_to(Y) called
\* while current_state is X succeeds and makes Y the current state if and only
\* if X is in Y's from_states; otherwise it raises InvalidStateTransition and
\* current_state is still X.  The same holds of a transition_to that a handler
\* calls while it processes an event.
C1_TransitionIffAllowed ==
    /\ (last.op = "transition_to" /\ last.pre \in Registered
           /\ last.state \in Registered)
        => IF last.pre \in from_states[last.state]
           THEN last.exc = "none" /\ current_state = last.state
           ELSE last.exc = "InvalidStateTransition" /\ current_state = last.pre
    /\ (last.op = "dispatch_event" /\ last.ran # {}
           /\ Asked(last.pre, last.event).act = "transition_to"
           /\ Asked(last.pre, last.event).to \in Registered)
        => LET y == Asked(last.pre, last.event).to IN
           IF last.pre \in from_states[y]
           THEN last.exc = "none" /\ current_state = y
           ELSE last.exc = "InvalidStateTransition" /\ current_state = last.pre

\* C1 witness: a transition from a registered state to itself has succeeded.
C1_Witness ==
    /\ last.op = "transition_to" /\ last.exc = "none"
    /\ last.state \in Registered /\ last.pre = last.state

\* a handler's successful transition_to is what changed current_state in the step
HandlerMoved ==
    /\ last'.op = "dispatch_event" /\ last'.exc = "none"
    /\ current_state # None
    /\ Asked(current_state, last'.event).act = "transition_to"
    /\ Asked(current_state, last'.event).to = current_state'
    /\ current_state \in from_states[current_state']

\* a direct successful transition_to is what changed current_state in the step
CallerMoved ==
    /\ last'.op = "transition_to" /\ last'.exc = "none"
    /\ current_state' = last'.state
    /\ current_state \in from_states[current_state']

\* C2 as claimed: once start() has been called, every call that changes
\* current_state is a successful transition_to (calls that raise are left
\* aside here).
C2_OnlyTransitionChangesCurrent ==
    [][(started /\ current_state' # current_state /\ last'.exc = "none")
          => (CallerMoved \/ HandlerMoved)]_vars

\* C2 amended: once start() has been called and has found an initial state
\* (indeed from the registration of the initial state on), every step that
\* changes current_state is a successful transition_to (called directly or by
\* a handler during dispatch_event) or a start(), which sets it to
\* initial_state.
C2_OnlyTransitionOrStartChangesCurrent ==
    [][(initial_state # None /\ current_state' # current_state)
          => \/ CallerMoved
             \/ HandlerMoved
             \/ last'.op = "start" /\ current_state' = initial_state]_vars

\* C2 witness: after start(), a dispatch has changed current_state.
C2_Witness ==
    /\ started /\ last.op = "dispatch_event" /\ last.exc = "none"
    /\ current_state # last.pre

\* C3 as claimed: a dispatch made while current_state is S (S having a handler
\* context) always runs the handler of S.
C3_AlwaysInvokesCurrentHandler ==
    (last.op = "dispatch_event" /\ last.pre # None
        /\ generator[last.pre].status # "missing")
    => last.ran = {last.pre}

\* C3 amended: a dispatch made while current_state is S runs the handler of S,
\* and touches no other state's handler context, if the context of S is
\* suspended at its yield; if S has no context yet or its context was ended by
\* an exception in an earlier dispatch, no handler runs at all and the call
\* fails (AttributeError, StopIteration) leaving everything as it was.
C3_InvokesCurrentHandlerIfSuspended ==
    [][last'.op = "dispatch_event" =>
         IF current_state # None /\ generator[current_state].status = "suspended"
         THEN /\ last'.ran = {current_state}
              /\ \A t \in AllStates \ {current_state} : generator'[t] = generator[t]
              /\ generator'[current_state].status =
                    IF last'.exc = "none" THEN "suspended" ELSE "finished"
              /\ last'.exc \notin {"AttributeError", "StopIteration"}
         ELSE /\ last'.ran = {}
              /\ last'.exc \in {"AttributeError", "StopIteration"}
              /\ UNCHANGED <<current_state, generator, foo>>]_vars

\* C3 witness: the handler of the current state has run although an earlier
\* dispatch to another state ended in an exception.
C3_Witness ==
    /\ last.op = "dispatch_event" /\ last.ran = {last.pre}
    /\ \E t \in Registered \ {last.pre} : generator[t].status = "finished"

\* C4 as claimed: every dispatch delivers its event to exactly one handler.
C4_ExactlyOneHandler ==
    (last.op = "dispatch_event" /\ last.pre # None
        /\ generator[last.pre].status # "missing")
    => Cardinality(last.ran) = 1

\* C4 amended: a dispatch delivers its event to at most one handler, which is
\* the handler of the state that was current when dispatch_event was called,
\* and to exactly that one when its context is suspended; if the handler moves
\* the machine to another state T, the context of T is not resumed by this
\* call.
C4_AtMostTheCurrentHandler ==
    [][last'.op = "dispatch_event" =>
         /\ Cardinality(last'.ran) <= 1
         /\ last'.ran \subseteq {current_state}
         /\ (current_state # None /\ generator[current_state].status = "suspended")
               => last'.ran = {current_state}
         /\ current_state' # current_state
               => /\ current_state' \notin last'.ran
                  /\ generator'[current_state'] = generator[current_state']]_vars

\* C4 witness: a handler has moved the machine to another state, whose
\* suspended handler did not get the event.
C4_Witness ==
    /\ last.op = "dispatch_event" /\ last.exc = "none"
    /\ current_state # last.pre /\ last.ran = {last.pre}
    /\ generator[current_state].status = "suspended"

\* C5: when start() returns, current_state is initial_state, also when
\* current_state was another state when start() was called.
C5_StartSetsCurrentToInitial ==
    (last.op = "start" /\ last.exc = "none") => current_state = initial_state

\* C5 witness: start() has returned after transition_to had moved
\* current_state away from initial_state.
C5_Witness ==
    /\ last.op = "start" /\ last.exc = "none"
    /\ last.pre # initial_state

\* C6 as claimed: current_state is always a registered State.
C6_CurrentAlwaysRegistered ==
    current_state \in Registered

\* C6 amended: current_state is None from construction until an initial state
\* is registered, and from then on it is a State registered under its name.
C6_CurrentRegisteredOnceInitial ==
    IF initial_state = None
    THEN current_state = None
    ELSE /\ current_state \in AllStates
         /\ StateName(current_state) \in Names
         /\ states[StateName(current_state)] = current_state

\* C6 witness: the machine is in a registered state other than the initial one.
C6_Witness ==
    /\ current_state \in Registered
    /\ current_state # initial_state

\* C7 as claimed: add_state of a name that is registered raises the
\* duplicate-state error (KeyError) and leaves the registry as it was.
C7_DuplicateRaisesKeyError ==
    [][(last'.op = "add_state" /\ StateName(last'.state) \in Names)
          => /\ last'.exc = "KeyError"
             /\ UNCHANGED <<states, from_states, handler_func, initial_state,
                            current_state>>]_vars

\* C7 amended: add_state of a name that is registered fails and leaves the
\* registry as it was; the error is the duplicate-state error (KeyError) unless
\* the call also has an empty from_states for a non-initial state (ValueError)
\* or a from_states entry that is no State (TypeError), which are checked first.
C7_DuplicateFailsRegistryUnchanged ==
    [][(last'.op = "add_state" /\ StateName(last'.state) \in Names)
          => /\ last'.exc = IF FromError(last'.fs, last'.init) # "none"
                            THEN FromError(last'.fs, last'.init)
                            ELSE "KeyError"
             /\ UNCHANGED <<states, from_states, handler_func, initial_state,
                            current_state>>]_vars

\* C7 witness: add_state of a registered state with another from_states has
\* raised KeyError.
C7_Witness ==
    /\ last.op = "add_state" /\ last.exc = "KeyError"
    /\ last.state \in Registered
    /\ from_states[last.state] # FromStatesTuple(last.fs)

\* C8 as claimed: once an initial state is registered, every add_state with
\* initial=True raises the multiple-initial-states error (RuntimeError) and
\* initial_state never changes.
C8_SecondInitialRaisesRuntimeError ==
    [][initial_state # None
          => /\ initial_state' = initial_state
             /\ (last'.op = "add_state" /\ last'.init)
                   => last'.exc = "RuntimeError"]_vars

\* C8 amended: once an initial state is registered, initial_state never
\* changes and every add_state with initial=True fails; the error is the
\* multiple-initial-states error (RuntimeError) unless from_states has an entry
\* that is no State (TypeError) or the name is registered (KeyError), which are
\* checked first.
C8_InitialSetOnce ==
    [][initial_state # None
          => /\ initial_state' = initial_state
             /\ (last'.op = "add_state" /\ last'.init)
                   => last'.exc =
                         IF FromError(last'.fs, TRUE) # "none"
                         THEN FromError(last'.fs, TRUE)
                         ELSE IF StateName(last'.state) \in Names THEN "KeyError"
                         ELSE "RuntimeError"]_vars

\* C8 witness: add_state of a second initial state has raised RuntimeError.
C8_Witness ==
    /\ last.op = "add_state" /\ last.init /\ last.exc = "RuntimeError"
    /\ initial_state # None /\ initial_state # last.state

\* C9: start() called while no initial state is declared raises the
\* no-initial-state error (RuntimeError) and changes nothing: current_state
\* stays and no generator is created or primed.
C9_StartWithoutInitialRefused ==
    [][(last'.op = "start" /\ initial_state = None)
          => /\ last'.exc = "RuntimeError"
             /\ UNCHANGED <<states, from_states, handler_func, initial_state,
                            current_state, generator, foo>>]_vars

\* C9 witness: start() has been refused with non-initial states registered.
C9_Witness ==
    /\ last.op = "start" /\ last.exc = "RuntimeError"
    /\ Registered # {}

\* C10 as claimed: add_state with an empty from_states raises the
\* configuration error (ValueError) and registers nothing for a non-initial
\* state, and succeeds for an initial state.
C10_EmptyFromInitialSucceeds ==
    [][(last'.op = "add_state" /\ FromStatesTuple(last'.fs) = {})
          => IF ~last'.init
             THEN /\ last'.exc = "ValueError"
                  /\ UNCHANGED <<states, from_states, handler_func,
                                 initial_state, current_state>>
             ELSE last'.exc = "none"]_vars

\* C10 amended: add_state with an empty from_states (None or an empty
\* collection) raises ValueError and registers nothing for a non-initial state;
\* for an initial state it never raises ValueError, and it succeeds when the
\* name is not registered yet and no initial state has been declared (otherwise
\* it raises KeyError, respectively RuntimeError).
C10_EmptyFromOnlyForInitial ==
    [][(last'.op = "add_state" /\ FromStatesTuple(last'.fs) = {})
          => IF ~last'.init
             THEN /\ last'.exc = "ValueError"
                  /\ UNCHANGED <<states, from_states, handler_func,
                                 initial_state, current_state>>
             ELSE /\ last'.exc = IF StateName(last'.state) \in Names THEN "KeyError"
                                 ELSE IF initial_state # None THEN "RuntimeError"
                                 ELSE "none"
                  /\ last'.exc = "none"
                        => /\ StateName(last'.state) \in DOMAIN states'
                           /\ states'[StateName(last'.state)] = last'.state
                           /\ from_states'[last'.state] = {}
                           /\ initial_state' = last'.state]_vars

\* C10 witness: an initial state has been registered with from_states None.
C10_Witness ==
    /\ last.op = "add_state" /\ last.exc = "none" /\ last.init
    /\ last.fs.kind = "None"
    /\ from_states[last.state] = {}

\* C11: data local to a handler (bar of callable_test.state_b_handler, foo of
\* the StateA object) changes only when its own state is current and is handed
\* the event that changes it (INCR_BAR adds one to bar, FLIP_FOO flips foo):
\* no other call but start, no event handed to another state and no leaving
\* and re-entering of the state changes it, and a call that is not a start
\* leaves the context of every state it does not resume as it was.
C11_LocalDataKept ==
    [][last'.op # "start" =>
         /\ generator'[STATE_B].bar # generator[STATE_B].bar =>
               /\ last'.op = "dispatch_event" /\ last'.ran = {STATE_B}
               /\ current_state = STATE_B /\ last'.event = "INCR_BAR"
               /\ generator'[STATE_B].bar = generator[STATE_B].bar + 1
         /\ foo' # foo =>
               /\ last'.op = "dispatch_event" /\ last'.ran = {STATE_A}
               /\ current_state = STATE_A /\ last'.event = "FLIP_FOO"
         /\ \A s \in AllStates :
               s \notin last'.ran => generator'[s] = generator[s]
         /\ last'.op = "dispatch_event" /\ last'.ran = {STATE_B}
            /\ last'.event = "INCR_BAR" =>
               generator'[STATE_B].bar = generator[STATE_B].bar + 1
         /\ last'.op = "dispatch_event" /\ last'.ran = {STATE_A}
            /\ last'.event = "FLIP_FOO" => foo' = ~foo]_vars

\* STATE_B is entered again and its counter still has the value it was left with
C11_Witness ==
    /\ last.op = "dispatch_event" /\ last.exc = "none"
    /\ last.pre = STATE_A /\ last.event = "GOTO_B" /\ current_state = STATE_B
    /\ generator[STATE_B].bar = 1 /\ foo

\* the exception that leaves the handler of State s when it is handed the
\* event: the one it raises itself or the one of the transition_to it calls
Raised(s, event) ==
    LET b == Asked(s, event) IN
    IF b.act = "transition_to" THEN TransitionError(current_state, b.to)
    ELSE b.exc

\* C12: when the handler of the current state raises FsmExit or another
\* exception on an event, dispatch_event raises that same exception to its
\* caller and current_state is what it was; the loop of run_event_list stops,
\* and once it has stopped it dispatches no further event.
C12_ExceptionReachesCaller ==
    [][/\ last'.op = "dispatch_event" /\ last'.ran # {}
          /\ Raised(Routed, last'.event) # "none" =>
             /\ last'.exc = Raised(Routed, last'.event)
             /\ current_state' = current_state
             /\ ~driver'.running
       /\ ~driver.running => last'.op # "dispatch_event"]_vars

\* FsmExit has stopped the loop with events of its list still undelivered
C12_Witness ==
    /\ last.op = "dispatch_event" /\ last.exc = "FsmExit"
    /\ ~driver.running /\ driver.idx < Len(driver.list)

\* the machine is the one demo d registers
Machine(d) ==
    /\ Names = {StateName(c.state) : c \in d}
    /\ \A c \in d : /\ states[StateName(c.state)] = c.state
                    /\ from_states[c.state] = FromStatesTuple(c.fs)
                    /\ handler_func[c.state] = c.handler
                    /\ c.initial => initial_state = c.state

\* current_state after start() and after each event of TurnstileEvents
TurnstileTrace ==
    <<STATE_LOCKED, STATE_UNLOCKED, STATE_LOCKED, STATE_UNLOCKED,
      STATE_UNLOCKED, STATE_LOCKED, STATE_LOCKED>>

\* C13: on the turnstile machine (STATE_LOCKED initial with from_states
\* {STATE_UNLOCKED}, STATE_UNLOCKED with from_states {STATE_LOCKED}), start()
\* followed by COIN, CUST_PASSED, COIN, COIN, CUST_PASSED, CUST_PASSED takes
\* current_state through LOCKED, UNLOCKED, LOCKED, UNLOCKED, UNLOCKED, LOCKED,
\* LOCKED, and neither start() nor any of the dispatches raises.
C13_TurnstileTrace ==
    Machine(TurnstileDemo) /\ driver.runs >= 1 /\ driver.list = TurnstileEvents =>
        /\ current_state = TurnstileTrace[driver.idx + 1]
        /\ last.exc = "none"
        /\ last.op = (IF driver.idx = 0 THEN "start" ELSE "dispatch_event")
        /\ driver.running \/ driver.idx = Len(TurnstileEvents)

\* the whole list has been delivered to the turnstile
C13_Witness ==
    /\ Machine(TurnstileDemo) /\ driver.list = TurnstileEvents
    /\ driver.idx = Len(TurnstileEvents) /\ current_state = STATE_LOCKED
    /\ last.op = "dispatch_event" /\ last.event = "CUST_PASSED"
    /\ last.pre = STATE_LOCKED

\* C14: on the three-state machine (STATE_A initial with from_states
\* {STATE_C}, STATE_B with {STATE_A}, STATE_C with {STATE_B}), GOTO_A
\* dispatched while current_state is STATE_B makes state_b_handler call
\* transition_to(STATE_A); dispatch_event raises InvalidStateTransition and
\* current_state is still STATE_B.
C14_GotoAFromBRejected ==
    /\ Machine(PystateDemo)
    /\ last.op = "dispatch_event" /\ last.event = "GOTO_A"
    /\ last.pre = STATE_B /\ last.ran = {STATE_B}
    => /\ Asked(STATE_B, "GOTO_A") = Transition(STATE_A)
       /\ last.exc = "InvalidStateTransition"
       /\ current_state = STATE_B

\* the fifth event of event_list_2 has been refused
C14_Witness ==
    /\ Machine(PystateDemo) /\ driver.list = EventList2 /\ driver.idx = 5
    /\ last.op = "dispatch_event" /\ last.event = "GOTO_A"
    /\ last.pre = STATE_B /\ last.ran = {STATE_B}
    /\ last.exc = "InvalidStateTransition" /\ ~driver.running

\* C15: when start() returns without an exception, every state registered at
\* that time, the initial one or not, has a generator of its own that has run
\* to its first yield; dispatch_event makes no generator for a state that has
\* none.
C15_AllPrimedAtStart ==
    [][/\ last'.op = "start" /\ last'.exc = "none" =>
             \A s \in Registered : generator'[s] = Primed
       /\ last'.op = "dispatch_event" =>
             \A s \in AllStates : generator[s].status = "missing" =>
                                      generator'[s].status = "missing"]_vars

\* start() has returned on a machine with a second state besides the initial one
C15_Witness ==
    /\ last.op = "start" /\ last.exc = "none"
    /\ \E s \in Registered : s # initial_state /\ generator[s] = Primed

\* C16: the from_states of a registered State never change: no add_state
\* (whether it succeeds or fails), start, transition_to or dispatch_event
\* gives a State that is in the registry another from_states.
C16_FromStatesFixed ==
    [][\A s \in Registered : from_states'[s] = from_states[s]]_vars

\* a started machine has refused to register a State again with other
\* from_states than it has
C16_Witness ==
    /\ started /\ last.op = "add_state" /\ last.exc = "KeyError"
    /\ last.state \in Registered
    /\ FromStatesTuple(last.fs) # from_states[last.state]

\* the from_states argument names exactly one State, alone or in a collection
OnePredecessor(fs) ==
    \/ fs.kind = "State"
    \/ fs.kind = "collection" /\ Cardinality(fs.elems) = 1
       /\ fs.elems \subseteq AllStates

\* C17: add_state treats a single State P given as from_states as it treats
\* the collection that holds only P: both give the same tuple and the same
\* outcome of the checks, and after a successful registration the State's
\* from_states are exactly {P}, so that transition_to into it is allowed
\* from P and from no other State.
C17_SingleStateAsCollection ==
    /\ \A p \in PredStates :
          /\ FromStatesTuple(FromSingle(p)) = {p}
          /\ FromStatesTuple(FromColl({p})) = {p}
          /\ \A state \in RegStates, initial \in BOOLEAN :
                AddStateError(state, FromSingle(p), initial)
                    = AddStateError(state, FromColl({p}), initial)
    /\ last.op = "add_state" /\ last.exc = "none" /\ OnePredecessor(last.fs) =>
          LET p == IF last.fs.kind = "State" THEN last.fs.one
                   ELSE CHOOSE x \in last.fs.elems : TRUE
          IN /\ from_states[last.state] = {p}
             /\ \A x \in AllStates :
                   TransitionError(x, last.state) = "none" <=> x = p

\* a State has been registered with a single State as its from_states
C17_Witness ==
    /\ last.op = "add_state" /\ last.exc = "none"
    /\ last.fs = FromSingle(STATE_A) /\ last.state = STATE_B
    /\ from_states[STATE_B] = {STATE_A}

\* C18 as stated: every start() on a machine that has been started before
\* sets current_state back to initial_state and gives every registered state
\* a freshly primed generator.
C18_RestartReplacesEveryContext ==
    [][last'.op = "start" /\ started =>
          /\ current_state' = initial_state
          /\ \A s \in Registered : generator'[s] = Primed]_vars

\* C18: every start() on a machine that has been started before sets
\* current_state back to initial_state; if it returns without an exception
\* every registered state has a freshly primed generator (bar is 0 again and
\* the state takes events), and it raises (TypeError) only if a registered
\* state has a handler_func that cannot be called, in which case the
\* generators it did not reach are as they were.
C18_RestartThatReturnsReplacesEveryContext ==
    [][last'.op = "start" /\ started =>
          /\ current_state' = initial_state
          /\ last'.exc = "none" =>
                \A s \in Registered : generator'[s] = Primed
          /\ last'.exc # "none" =>
                /\ last'.exc = "TypeError"
                /\ \E s \in Registered : handler_func[s] = None
                /\ \A s \in AllStates :
                      generator'[s] = Primed \/ generator'[s] = generator[s]]_vars

\* start() has returned on a machine that had been started, had flipped foo
\* and had moved to STATE_B
C18_Witness ==
    /\ last.op = "start" /\ last.exc = "none" /\ started
    /\ last.pre = STATE_B /\ foo /\ current_state = STATE_A
    /\ \A s \in Registered : generator[s] = Primed

\* C19: an exception that leaves a handler during dispatch_event (that of a
\* refused transition_to, a ValueError or FsmExit the handler raises) finishes
\* the generator of that state and of no other; a finished generator stays
\* finished through every call that is not a start(); and dispatch_event
\* called while the current state's generator is finished raises
\* StopIteration, runs no handler and changes neither current_state nor any
\* handler's data.
C19_FinishedUntilStart ==
    [][/\ last'.op = "dispatch_event" /\ last'.ran # {} /\ last'.exc # "none" =>
             /\ last'.exc \in {"InvalidStateTransition", "ValueError", "FsmExit"}
             /\ generator'[Routed].status = "finished"
             /\ \A s \in AllStates \ {Routed} : generator'[s] = generator[s]
       /\ \A s \in AllStates :
             generator[s].status = "finished" /\ last'.op # "start" =>
                 generator'[s] = generator[s]
       /\ /\ last'.op = "dispatch_event" /\ current_state # None
          /\ StateName(current_state) \in Names
          /\ generator[Routed].status = "finished"
          => /\ last'.exc = "StopIteration" /\ last'.ran = {}
             /\ current_state' = current_state
             /\ generator' = generator /\ foo' = foo]_vars

\* an event has met the finished generator of the current state while
\* another state's generator still waits for events
C19_Witness ==
    /\ last.op = "dispatch_event" /\ last.exc = "StopIteration"
    /\ generator[current_state].status = "finished"
    /\ \E s \in Registered : generator[s].status = "suspended"

\* C20: an add_state that raises (ValueError for empty from_states of a state
\* that is not initial, TypeError for an entry that is no State, KeyError for
\* a name already registered, RuntimeError for a second initial state)
\* changes nothing: the registry, initial_state, current_state, and every
\* State's from_states, handler_func and generator, those of the offered
\* State among them, are what they were before the call.
C20_FailedAddStateHasNoEffect ==
    [][last'.op = "add_state" /\ last'.exc # "none" =>
          /\ last'.exc \in {"ValueError", "TypeError", "KeyError", "RuntimeError"}
          /\ states' = states
          /\ initial_state' = initial_state /\ current_state' = current_state
          /\ from_states' = from_states /\ handler_func' = handler_func
          /\ generator' = generator /\ foo' = foo]_vars

\* a State offered as a second initial state with an entry in from_states
\* that is no State has been refused and is still unregistered and bare
C20_Witness ==
    /\ last.op = "add_state" /\ last.exc = "TypeError" /\ last.init
    /\ initial_state # None /\ initial_state # last.state
    /\ last.state \notin Registered
    /\ from_states[last.state] = {} /\ handler_func[last.state] = None

====
